---- MODULE Spec2Model ----
(***************************************************************************)
(* Model of the query engine of pokemon_tcg_sdk (src/lib.rs): the Client   *)
(* with its args map and the three operations of the Query trait, find,    *)
(* _where and all, run against a transport whose every answer is chosen    *)
(* nondeterministically.                                                   *)
(*                                                                         *)
(* Strings that the code parses or formats (the values of args) are        *)
(* sequences of one-character strings; every other string is opaque.       *)
(* A HashMap<String, String> is a function from its key set to values.     *)
(* `&mut self` on all/_where makes the calls on one Client sequential, so  *)
(* a new call starts only when the previous one has returned.              *)
(***************************************************************************)
EXTENDS Integers, Sequences, FiniteSets, TLC

VARIABLES
    args,       \* Client.args
    pc,         \* "idle": no call in progress; "paging": inside all's 'paging loop
    u,          \* all: T::path() of the call in progress
    res,        \* all: the accumulated Vec<T>
    fetch_all,  \* all: the paging flag
    result,     \* the value the last completed call returned
    call,       \* the last call made: operation, resource kind, id / args passed
    sent,       \* the requests that call has handed to the transport, in order
    resps       \* the transport's answers to them, in order

vars == <<args, pc, u, res, fetch_all, result, call, sent, resps>>

----------------------------------------------------------------------------
(* Bounds and input sets *)

\* the transport answers at most this many requests of one call
MaxRequests == 3
\* a multi-item envelope carries at most this many items
MaxPageLen == 1

SeqsUpTo(S, n) == UNION {[1..k -> S] : k \in 0..n}

Ids == {"xy1-1", "xy1"}
\* a resource payload, opaque but for its identifier
Payloads == {[id |-> i] : i \in Ids}
Pages == SeqsUpTo(Payloads, MaxPageLen)

\* values a caller passes for `page`: numeric, non-numeric, zero-padded
PageValues == {<<"2">>, <<"x">>, <<"0", "9">>}
FilterValues == {<<"v">>}

EmptyMap == [k \in {} |-> <<>>]

\* the mappings a caller passes to _where
ArgMaps ==
    {EmptyMap}
    \cup {[page |-> p] : p \in PageValues}
    \cup {[name |-> v] : v \in FilterValues}
    \cup {[page |-> p, name |-> v] : p \in PageValues, v \in FilterValues}

----------------------------------------------------------------------------
(* Resource router *)

POKEMON_TCG_URL == "https://api.pokemontcg.io/v2"

ResourceKinds == {"Card", "Type", "Supertype", "Subtype", "Set", "Rarity"}

path(T) ==
    CASE T = "Card"      -> "cards"
      [] T = "Type"      -> "types"
      [] T = "Supertype" -> "supertypes"
      [] T = "Subtype"   -> "subtypes"
      [] T = "Set"       -> "sets"
      [] T = "Rarity"    -> "rarities"

----------------------------------------------------------------------------
(* HashMap<String, String> *)

len(m) == Cardinality(DOMAIN m)

contains_key(m, k) == k \in DOMAIN m

insert(m, k, v) == [x \in DOMAIN m \cup {k} |-> IF x = k THEN v ELSE m[x]]

----------------------------------------------------------------------------
(* str::parse::<i32> and format!("{num}") *)

DigitChars == <<"0", "1", "2", "3", "4", "5", "6", "7", "8", "9">>

IsDigit(c) == \E d \in 1..10 : DigitChars[d] = c

DigitValue(c) == (CHOOSE d \in 1..10 : DigitChars[d] = c) - 1

RECURSIVE Magnitude(_)
Magnitude(ds) ==
    IF ds = <<>> THEN 0
    ELSE 10 * Magnitude(SubSeq(ds, 1, Len(ds) - 1)) + DigitValue(ds[Len(ds)])

I32_MAX == 2147483647
I32_MIN == -I32_MAX - 1

\* i32::from_str: an optional sign, then one or more decimal digits, in range
parse(s) ==
    LET signed == Len(s) > 0 /\ s[1] \in {"+", "-"}
        ds     == IF signed THEN Tail(s) ELSE s
        wellFormed == Len(ds) > 0 /\ \A i \in 1..Len(ds) : IsDigit(ds[i])
        v      == IF signed /\ s[1] = "-" THEN -Magnitude(ds) ELSE Magnitude(ds)
    IN  IF wellFormed /\ v >= I32_MIN /\ v <= I32_MAX
        THEN [ok |-> TRUE, val |-> v]
        ELSE [ok |-> FALSE, val |-> 0]

unwrap_or(r, d) == IF r.ok THEN r.val ELSE d

RECURSIVE Decimal(_)
Decimal(n) ==
    IF n < 10 THEN <<DigitChars[n + 1]>>
    ELSE Append(Decimal(n \div 10), DigitChars[(n % 10) + 1])

format(n) == IF n < 0 THEN <<"-">> \o Decimal(-n) ELSE Decimal(n)

----------------------------------------------------------------------------
(* Transport and wire envelopes *)

\* A response body: {"data": <object>}, {"data": [<object>, ...]}, or anything else
Bodies ==
    {[shape |-> "object", items |-> <<p>>] : p \in Payloads}
    \cup {[shape |-> "array", items |-> s] : s \in Pages}
    \cup {[shape |-> "other", items |-> <<>>]}

TransportError == [ok |-> FALSE, body |-> [shape |-> "other", items |-> <<>>]]

\* what `send().await` yields: Err(reqwest::Error) or Ok(response)
Outcomes == {TransportError} \cup {[ok |-> TRUE, body |-> b] : b \in Bodies}

\* resp.json::<Container<T>>()
DecodeContainer(body) ==
    IF body.shape = "object"
    THEN [ok |-> TRUE, data |-> body.items]
    ELSE [ok |-> FALSE, data |-> <<>>]

\* resp.json::<VecContainer<T>>()
DecodeVecContainer(body) ==
    IF body.shape = "array"
    THEN [ok |-> TRUE, data |-> body.items]
    ELSE [ok |-> FALSE, data |-> <<>>]

None == [tag |-> "None", val |-> <<>>]
Some(x) == [tag |-> "Some", val |-> <<x>>]
Vec(s) == [tag |-> "Vec", val |-> s]

NoCall == [op |-> "new", T |-> "", id |-> "", m |-> EmptyMap]

----------------------------------------------------------------------------
(* Client::new *)

Init ==
    /\ args = EmptyMap
    /\ pc = "idle"
    /\ u = ""
    /\ res = <<>>
    /\ fetch_all = TRUE
    /\ result = None
    /\ call = NoCall
    /\ sent = <<>>
    /\ resps = <<>>

----------------------------------------------------------------------------
(* Client::find *)

\* NoFindById with the last arm of the match forgotten
NoFindByIdButRarities(_url) == _url \in {"types", "supertypes", "subtypes"}

\* the kinds find refuses without a request
NoFindById(_url) == _url \in {"types", "supertypes", "subtypes", "rarities"}

\* FindUrl with the resource segment left out of the format string
FindUrlNoSegment(_url, id) == <<POKEMON_TCG_URL, id>>

\* format!("{POKEMON_TCG_URL}/{_url}/{id}"), as its "/"-separated parts
FindUrl(_url, id) == <<POKEMON_TCG_URL, _url, id>>

\* find builds its request from the url alone: .query() is never called
FindRequest(_url, id) == [url |-> FindUrl(_url, id), query |-> EmptyMap]

\* Some(container.data) when the transport answered and the body decoded
FindReturn(response) ==
    IF response.ok
    THEN LET container == DecodeContainer(response.body)
         IN  IF container.ok THEN Some(container.data[1]) ELSE None
    ELSE None

\* FindArgs of a find that seeds a page as all does
FindArgsSeeded(a) == insert(a, "page", <<"1">>)

\* find takes &self: the args it leaves behind are the args it found
FindArgs(a) == a

Find(T, id) ==
    /\ pc = "idle"
    /\ LET _url == path(T)
       IN  IF NoFindById(_url)
           THEN /\ result' = None
                /\ sent' = <<>>
                /\ resps' = <<>>
           ELSE \E response \in Outcomes :
                    /\ sent' = <<FindRequest(_url, id)>>
                    /\ resps' = <<response>>
                    /\ result' = FindReturn(response)
    /\ args' = FindArgs(args)
    /\ call' = [op |-> "find", T |-> T, id |-> id, m |-> EmptyMap]
    /\ UNCHANGED <<pc, u, res, fetch_all>>

----------------------------------------------------------------------------
(* Client::_where and Client::all *)

\* clear that leaves the map as it is
clearNothing(m) == m

\* HashMap::clear
clear(m) == EmptyMap

\* _where: self.args.clear(), then every pair of the argument inserted
WhereArgs(a, m) ==
    LET c == clear(a)
    IN  [k \in DOMAIN c \cup DOMAIN m |-> IF k \in DOMAIN m THEN m[k] ELSE c[k]]

\* all: fetch_all after the look-up of "page"
FetchAll(a) == IF contains_key(a, "page") THEN TRUE ELSE TRUE

\* SeedPage without the insertion
SeedPageNever(a) == a

\* all: page=1 is inserted when the args hold no "page"
SeedPage(a) == IF contains_key(a, "page") THEN a ELSE insert(a, "page", <<"1">>)

\* format!("{POKEMON_TCG_URL}/{u}")
AllUrl(_u) == <<POKEMON_TCG_URL, _u>>

\* the request of one turn of the loop: .query(&self.args) only when args is non-empty
AllRequest(_u, a) ==
    [url |-> AllUrl(_u), query |-> IF len(a) > 0 THEN a ELSE EmptyMap]

\* Extend that puts the new items in front
ExtendInFront(r, data) == data \o r

\* for item in container.data { res.push(item.clone()) }
Extend(r, data) == r \o data

\* num = val.parse().unwrap_or(0); num += 1; *val = format!("{num}")
\* (the page values of this model stay far below i32::MAX)
AdvancePage(a) ==
    [a EXCEPT !["page"] = format(unwrap_or(parse(@), 0) + 1)]

\* the entry of all, up to the 'paging loop
Enter(T, op, m, a) ==
    /\ pc' = "paging"
    /\ u' = path(T)
    /\ res' = <<>>
    /\ fetch_all' = FetchAll(a)
    /\ args' = SeedPage(a)
    /\ result' = None
    /\ call' = [op |-> op, T |-> T, id |-> "", m |-> m]
    /\ sent' = <<>>
    /\ resps' = <<>>

All(T) ==
    /\ pc = "idle"
    /\ Enter(T, "all", EmptyMap, args)

Where(T, m) ==
    /\ pc = "idle"
    /\ Enter(T, "_where", m, WhereArgs(args, m))

\* leaving the loop: self.args.clear(); res
Return(r) ==
    /\ pc' = "idle"
    /\ args' = clear(args)
    /\ result' = Vec(r)
    /\ u' = ""
    /\ res' = <<>>
    /\ fetch_all' = TRUE

\* one turn of the 'paging loop: a request, its answer, and what the code does with it
Paging(response) ==
    /\ pc = "paging"
    /\ Len(sent) < MaxRequests
    /\ sent' = Append(sent, AllRequest(u, args))
    /\ resps' = Append(resps, response)
    /\ UNCHANGED call
    /\ IF response.ok
       THEN LET container == DecodeVecContainer(response.body)
            IN  IF container.ok
                THEN LET r == Extend(res, container.data)
                     IN  IF fetch_all
                         THEN /\ res' = r
                              /\ IF contains_key(args, "page")
                                 THEN /\ args' = AdvancePage(args)
                                      /\ fetch_all' = fetch_all
                                 ELSE /\ args' = args
                                      /\ fetch_all' = FALSE
                              /\ UNCHANGED <<pc, u, result>>
                         ELSE Return(r)
                ELSE UNCHANGED <<args, pc, u, res, fetch_all, result>>
       ELSE Return(res)

----------------------------------------------------------------------------

Next ==
    \/ \E T \in ResourceKinds, id \in Ids : Find(T, id)
    \/ \E T \in ResourceKinds : All(T)
    \/ \E T \in ResourceKinds, m \in ArgMaps : Where(T, m)
    \/ \E response \in Outcomes : Paging(response)

Spec == Init /\ [][Next]_vars

----------------------------------------------------------------------------
(* What the claims speak of *)

\* the last call is a collection fetch
Collection == call.op \in {"all", "_where"}

\* the transport answered and the body is a multi-item envelope
IsPage(response) == response.ok /\ response.body.shape = "array"

\* the items of the multi-item envelopes among the answers rs, in the order received
RECURSIVE Received(_)
Received(rs) ==
    IF rs = <<>> THEN <<>>
    ELSE LET front == Received(SubSeq(rs, 1, Len(rs) - 1))
             last  == rs[Len(rs)]
         IN  IF IsPage(last) THEN front \o last.body.items ELSE front

\* what the call holds as its result: the value returned, or the Vec still being filled
Accumulated == IF pc = "idle" THEN result.val ELSE res

----------------------------------------------------------------------------
\* C1: find on types, supertypes, subtypes or rarities returns None, whatever the
\* id, and hands no request to the transport.
C1_NoLookupNoRequest ==
    (call.op = "find" /\ path(call.T) \in {"types", "supertypes", "subtypes", "rarities"})
        => (result = None /\ sent = <<>> /\ resps = <<>>)

C1_Witness ==
    /\ call.op = "find"
    /\ call.T = "Rarity"
    /\ call.id = "xy1"
    /\ result = None
    /\ sent = <<>>

\* C2: find on cards or sets issues exactly one GET to {base}/{segment}/{id}; it
\* returns Some(data) exactly when the transport answered with a single-item
\* envelope, data being that envelope's item, and None otherwise; an item whose
\* identifier is the requested id comes back with that identifier.
C2_FindOneGet ==
    (call.op = "find" /\ path(call.T) \in {"cards", "sets"})
        => /\ Len(sent) = 1
           /\ sent[1].url = <<"https://api.pokemontcg.io/v2", path(call.T), call.id>>
           /\ Len(resps) = 1
           /\ IF resps[1].ok /\ resps[1].body.shape = "object"
              THEN /\ result.tag = "Some"
                   /\ result.val = resps[1].body.items
                   /\ (resps[1].body.items[1].id = call.id => result.val[1].id = call.id)
              ELSE result = None

C2_Witness ==
    /\ call.op = "find"
    /\ call.T = "Card"
    /\ call.id = "xy1-1"
    /\ sent = <<[url |-> <<"https://api.pokemontcg.io/v2", "cards", "xy1-1">>,
                 query |-> EmptyMap]>>
    /\ result = Some([id |-> "xy1-1"])

\* C3: whenever no collection fetch is in progress, that is at the start and at the
\* end of every all/_where call, args is empty: all clears it before it returns.
C3_ArgsEmptyBetweenCalls == pc = "idle" => args = EmptyMap

C3_Witness ==
    /\ pc = "idle"
    /\ call.op = "_where"
    /\ call.m = [page |-> <<"0", "9">>, name |-> <<"v">>]
    /\ Len(sent) = 3
    /\ args = EmptyMap

\* C4: every request of _where(m) carries key=value for each pair of m and no key
\* besides those of m and page; an all() sends no filter at all.
C4_WhereCarriesEveryPair ==
    /\ call.op = "_where" =>
           \A i \in DOMAIN sent :
               /\ DOMAIN sent[i].query \subseteq DOMAIN call.m \cup {"page"}
               /\ \A k \in DOMAIN call.m :
                      k \in DOMAIN sent[i].query /\ sent[i].query[k] = call.m[k]
    /\ call.op = "all" =>
           \A i \in DOMAIN sent : DOMAIN sent[i].query \subseteq {"page"}

\* C5: a collection fetch issues one request only: never a second one, exactly one
\* by the time it returns, and with the caller's page value when one was given.
C5_OneRequestPerCall ==
    Collection =>
        /\ Len(sent) <= 1
        /\ (pc = "idle" => Len(sent) = 1)
        /\ "page" \in DOMAIN call.m =>
               \A i \in DOMAIN sent : sent[i].query["page"] = call.m["page"]

\* C6: a response that fails to decode as a multi-item envelope ends the loop: it
\* is the last response of the call, and the call has returned what it had
\* accumulated before it.
C6_DecodeFailureStops ==
    Collection =>
        \A i \in DOMAIN resps :
            (resps[i].ok /\ resps[i].body.shape # "array")
                => /\ i = Len(resps)
                   /\ pc = "idle"
                   /\ result = Vec(Received(SubSeq(resps, 1, i - 1)))

\* C7: a transport failure ends the loop at once: it is the last answer of the
\* call, and the call has returned, as a plain sequence, the items of the responses
\* decoded before it, in the order received (none if the first request failed).
C7_TransportFailureReturnsPartial ==
    Collection =>
        \A i \in DOMAIN resps :
            ~resps[i].ok
                => /\ i = Len(resps)
                   /\ pc = "idle"
                   /\ result = Vec(Received(SubSeq(resps, 1, i - 1)))

C7_Witness ==
    /\ Collection
    /\ pc = "idle"
    /\ Len(resps) = 3
    /\ ~resps[3].ok
    /\ result = Vec(<<[id |-> "xy1-1"], [id |-> "xy1"]>>)

\* C8 (as stated): a collection fetch the caller gave no args sends its requests
\* without a query string.
C8_NoQueryWithoutArgs ==
    (Collection /\ call.m = EmptyMap) =>
        \A i \in DOMAIN sent : sent[i].query = EmptyMap

\* C8 (amended): every request of a collection fetch carries the caller's keys and
\* page, and nothing else; with no args given the first request's query is page=1.
C8_QueryIsArgsAndPage ==
    Collection =>
        \A i \in DOMAIN sent :
            /\ DOMAIN sent[i].query = DOMAIN call.m \cup {"page"}
            /\ (call.m = EmptyMap /\ i = 1) => sent[i].query = [page |-> <<"1">>]

C8_Witness ==
    /\ call.op = "all"
    /\ call.T = "Type"
    /\ sent = <<[url |-> <<"https://api.pokemontcg.io/v2", "types">>,
                 query |-> [page |-> <<"1">>]]>>

\* C9: against an upstream that serves the collection as one page (every request
\* answered with a multi-item envelope, the first page again or an empty list after
\* the first), what all holds as its result is that page's items, each once.
C9_SinglePageExactly ==
    (/\ Collection
     /\ resps # <<>>
     /\ \A i \in DOMAIN resps :
            /\ IsPage(resps[i])
            /\ i > 1 => resps[i].body.items \in {resps[1].body.items, <<>>})
        => Accumulated = resps[1].body.items

\* C10: a find step leaves args as it found it and sends no query parameter.
C10_FindLeavesArgs ==
    [][(pc = "idle" /\ pc' = "idle")
           => /\ call'.op = "find"
              /\ args' = args
              /\ \A i \in DOMAIN sent' : sent'[i].query = EmptyMap]_vars

C10_Witness ==
    /\ call.op = "find"
    /\ call.T = "Set"
    /\ Len(sent) = 1
    /\ resps[1].ok
    /\ args = EmptyMap

====
